---- MODULE Spec2Model ----
(***************************************************************************)
(* Model of python-mip's algebraic layer (src/mip/entities.py): LinExpr,   *)
(* the operators of Var that build LinExprs, and ConflictGraph.conflicting.*)
(*                                                                         *)
(* Numbers.  A number is a Python float, an IEEE 754 double, held as a     *)
(* record [s, m, e] (sign, odd mantissa, exponent).  Sums, products and    *)
(* quotients are computed as the machine computes them: exactly, then      *)
(* rounded to 53 bits, ties to even.  Mantissas are naturals of any size,  *)
(* kept as limbs.  Not modelled: -0.0 (no test of the source tells it from *)
(* 0.0), and infinities, NaN and subnormals, which the inputs stay far     *)
(* from.  An int stands for the float of the same value.                   *)
(*                                                                         *)
(* Objects.  LinExpr objects live in a heap (a sequence); a reference is   *)
(* an index into it.  A dict is a sequence of [v, c] items in insertion    *)
(* order with unique keys v; a Var key is its idx (Var hashes by idx and   *)
(* its __eq__ result is always truthy).                                    *)
(***************************************************************************)
EXTENDS Integers, Sequences, FiniteSets, TLC

VARIABLES heap, pre, last, pc, inp

vars == <<heap, pre, last, pc, inp>>

----------------------------------------------------------------------------
(* Numbers *)

(* Natural numbers of any size: sequences of limbs in base 2^15, least
   significant first, without leading zero limbs (0 is <<>>). *)

LimbBits == 15

Base == 2^LimbBits

Limb(a, i) == IF i <= Len(a) THEN a[i] ELSE 0

RECURSIVE BTrim(_)
BTrim(a) ==
    IF a = <<>> \/ a[Len(a)] # 0 THEN a ELSE BTrim(SubSeq(a, 1, Len(a) - 1))

RECURSIVE BAddC(_, _, _, _)
BAddC(a, b, i, c) ==
    IF i > Len(a) /\ i > Len(b) THEN (IF c = 0 THEN <<>> ELSE <<c>>)
    ELSE <<(Limb(a, i) + Limb(b, i) + c) % Base>>
            \o BAddC(a, b, i + 1, (Limb(a, i) + Limb(b, i) + c) \div Base)

BAdd(a, b) == BAddC(a, b, 1, 0)

RECURSIVE BSubC(_, _, _, _)
BSubC(a, b, i, c) ==
    IF i > Len(a) THEN <<>>
    ELSE <<(a[i] - Limb(b, i) - c) % Base>>
            \o BSubC(a, b, i + 1, IF a[i] - Limb(b, i) - c < 0 THEN 1 ELSE 0)

\* a - b for a >= b.
BSub(a, b) == BTrim(BSubC(a, b, 1, 0))

RECURSIVE BCmpAt(_, _, _)
BCmpAt(a, b, i) ==
    IF i = 0 THEN 0
    ELSE IF a[i] # b[i] THEN (IF a[i] < b[i] THEN -1 ELSE 1)
    ELSE BCmpAt(a, b, i - 1)

\* -1, 0, 1 as a < b, a = b, a > b.
BCmp(a, b) ==
    IF Len(a) # Len(b) THEN (IF Len(a) < Len(b) THEN -1 ELSE 1)
    ELSE BCmpAt(a, b, Len(a))

RECURSIVE BMulSmallC(_, _, _, _)
BMulSmallC(a, k, i, c) ==
    IF i > Len(a) THEN (IF c = 0 THEN <<>> ELSE <<c>>)
    ELSE <<(a[i] * k + c) % Base>> \o BMulSmallC(a, k, i + 1, (a[i] * k + c) \div Base)

\* a * k for a limb k > 0.
BMulSmall(a, k) == IF k = 1 THEN a ELSE BMulSmallC(a, k, 1, 0)

RECURSIVE BMul(_, _)
BMul(a, b) ==
    IF a = <<>> \/ b = <<>> THEN <<>>
    ELSE IF b = <<1>> THEN a
    ELSE BAdd(IF b[1] = 0 THEN <<>> ELSE BMulSmall(a, b[1]),
              IF Len(b) = 1 THEN <<>> ELSE <<0>> \o BMul(a, Tail(b)))

\* a * 2^n
BShl(a, n) ==
    IF a = <<>> \/ n = 0 THEN a
    ELSE [i \in 1..(n \div LimbBits) |-> 0] \o BMulSmall(a, 2^(n % LimbBits))

RECURSIVE BShrAt(_, _, _)
BShrAt(a, r, i) ==
    IF i > Len(a) THEN <<>>
    ELSE <<(a[i] \div 2^r) + (Limb(a, i + 1) % 2^r) * 2^(LimbBits - r)>>
            \o BShrAt(a, r, i + 1)

\* a \div 2^n
BShr(a, n) ==
    IF n = 0 THEN a
    ELSE IF n \div LimbBits >= Len(a) THEN <<>>
    ELSE BTrim(BShrAt(SubSeq(a, n \div LimbBits + 1, Len(a)), n % LimbBits, 1))

RECURSIVE Bits(_)
Bits(n) == IF n = 0 THEN 0 ELSE 1 + Bits(n \div 2)

\* The number of bits of a.
BitLen(a) == IF a = <<>> THEN 0 ELSE LimbBits * (Len(a) - 1) + Bits(a[Len(a)])

\* Bit i of a, the lowest being bit 1.
Bit(a, i) == (Limb(a, (i - 1) \div LimbBits + 1) \div 2^((i - 1) % LimbBits)) % 2

RECURSIVE TrailingZeros(_, _)
TrailingZeros(a, i) == IF Bit(a, i) = 1 THEN i - 1 ELSE TrailingZeros(a, i + 1)

(* Python floats (IEEE 754 binary64): [s, m, e] is the double s * m * 2^e,
   s the sign (0 for zero), m an odd natural number below 2^53. *)

Precision == 53

Zero == [s |-> 0, m |-> <<>>, e |-> 0]

One == [s |-> 1, m |-> <<1>>, e |-> 0]

MinusOne == [s |-> -1, m |-> <<1>>, e |-> 0]

Two == [s |-> 1, m |-> <<1>>, e |-> 1]

\* The literal 1e-12 of LinExpr.__init__ and LinExpr.equals: the double
\* 0x3D719799812DEA11, which is 0x119799812DEA11 * 2^-92.
Tol == [s |-> 1, m |-> <<27153, 603, 24166, 140>>, e |-> -92]

\* mip.EPS, used by add_var; mip/constants.py is not among the sources, the
\* specification gives the tolerance of add_var as 1e-12.
EPS == Tol

\* s * m * 2^(e - tz) for m # 0 with tz trailing zero bits: m made odd.
OddAt(s, m, e, tz) == [s |-> s, m |-> BShr(m, tz), e |-> e + tz]

\* m without its low k bits, rounded to nearest, ties to even: the low k bits
\* of m + 2^(k-1) - 1 + (bit k + 1 of m) are dropped.
RoundAt(m, k) ==
    IF k <= 0 THEN m
    ELSE BShr(BAdd(m, BSub(BShl(<<1>>, k - 1), <<1 - Bit(m, k + 1)>>)), k)

Normal(s, m, e) == OddAt(s, m, e, TrailingZeros(m, 1))

RoundBy(s, m, e, k) == Normal(s, RoundAt(m, k), IF k <= 0 THEN e ELSE e + k)

\* s * m * 2^e as a double.
Round(s, m, e) ==
    IF s = 0 \/ m = <<>> THEN Zero ELSE RoundBy(s, m, e, BitLen(m) - Precision)

Sign(n) == IF n < 0 THEN -1 ELSE IF n = 0 THEN 0 ELSE 1

\* float(n) for an int n of magnitude below 2^15.
FromInt(n) == IF n = 0 THEN Zero ELSE Normal(Sign(n), <<n * Sign(n)>>, 0)

NNeg(a) == [a EXCEPT !.s = -a.s]

\* The sum of sa * ma and sb * mb, both in units of 2^e, c comparing ma to mb.
AddAs(sa, ma, sb, mb, e, c) ==
    Round(IF sa = sb THEN sa ELSE c * sa,
          IF sa = sb THEN BAdd(ma, mb)
          ELSE BSub(IF c > 0 THEN ma ELSE mb, IF c > 0 THEN mb ELSE ma),
          e)

AddIn(sa, ma, sb, mb, e) == AddAs(sa, ma, sb, mb, e, BCmp(ma, mb))

AddAt(a, b, e) == AddIn(a.s, BShl(a.m, a.e - e), b.s, BShl(b.m, b.e - e), e)

\* a + b, rounded.
NAdd(a, b) ==
    IF a.s = 0 THEN b
    ELSE IF b.s = 0 THEN a
    ELSE AddAt(a, b, IF a.e < b.e THEN a.e ELSE b.e)

NSub(a, b) == NAdd(a, NNeg(b))

\* a * b, rounded.
NMul(a, b) == Round(a.s * b.s, BMul(a.m, b.m), a.e + b.e)

\* One more bit of the quotient q, r being the remainder so far.
DivStep(d, q, r, ge) ==
    IF ge THEN [q |-> BAdd(q, <<1>>), r |-> BMulSmall(BSub(r, d), 2)]
    ELSE [q |-> q, r |-> BMulSmall(r, 2)]

DivBit(d, q, r) == DivStep(d, BMulSmall(q, 2), r, BCmp(r, d) >= 0)

RECURSIVE BDivAt(_, _, _)
\* i more bits of the quotient of st.r by d, appended to st.q; once nothing
\* remains the bits left are zeros.
BDivAt(d, i, st) ==
    IF i = 0 THEN st
    ELSE IF st.r = <<>> THEN [q |-> BShl(st.q, i), r |-> <<>>]
    ELSE BDivAt(d, i - 1, DivBit(d, st.q, st.r))

\* The quotient with a sticky bit appended: 1 when the division left a remainder.
DivSticky(st) == BAdd(BMulSmall(st.q, 2), IF st.r = <<>> THEN <<>> ELSE <<1>>)

\* s * (n / d) * 2^e for n and d of the same length: 56 bits of the quotient.
DivAt(s, n, d, e) ==
    Round(s, DivSticky(BDivAt(d, Precision + 3, [q |-> <<>>, r |-> n])),
          e - (Precision + 3))

DivBy(a, b, la, lb) ==
    DivAt(a.s * b.s,
          BShl(a.m, IF la < lb THEN lb - la ELSE 0),
          BShl(b.m, IF lb < la THEN la - lb ELSE 0),
          (a.e - b.e) + (la - lb))

\* a / b for b # 0, rounded.
NDiv(a, b) == IF a.s = 0 THEN Zero ELSE DivBy(a, b, BitLen(a.m), BitLen(b.m))

CmpAt(a, b, e) == a.s * BCmp(BShl(a.m, a.e - e), BShl(b.m, b.e - e))

\* The sign of a - b: -1, 0, 1 as a < b, a = b, a > b.
NCmp(a, b) ==
    IF a.s # b.s THEN Sign(a.s - b.s)
    ELSE IF a.s = 0 THEN 0
    ELSE CmpAt(a, b, IF a.e < b.e THEN a.e ELSE b.e)

NLe(a, b) == NCmp(a, b) <= 0

NLt(a, b) == NCmp(a, b) < 0

NAbs(a) == [a EXCEPT !.s = a.s * a.s]

NMax(a, b) == IF NLt(a, b) THEN b ELSE a

\* The value of the Python expression w + p * 1e-12 for ints w and p; for
\* w = 0 it is the literal <p>e-12.
Num(w, p) == NAdd(FromInt(w), NMul(FromInt(p), Tol))

----------------------------------------------------------------------------
(* dict: insertion-ordered items [v, c] *)

Keys(d) == {d[i].v : i \in DOMAIN d}

Pos(d, v) == CHOOSE i \in DOMAIN d : d[i].v = v

Get(d, v) == d[Pos(d, v)].c

SetItem(d, v, c) ==
    IF v \in Keys(d) THEN [d EXCEPT ![Pos(d, v)].c = c]
    ELSE Append(d, [v |-> v, c |-> c])

DelItem(d, v) == SelectSeq(d, LAMBDA it : it.v # v)

----------------------------------------------------------------------------
(* Operands and results *)

Senses == {"", "=", "<", ">"}

VarO(v) == [t |-> "var", i |-> v, r |-> Zero]

LinO(id) == [t |-> "lin", i |-> id, r |-> Zero]

RealO(r) == [t |-> "real", i |-> 0, r |-> r]

\* A value of any other type (a str, None, a list).
OtherO == [t |-> "other", i |-> 0, r |-> Zero]

NoneO == [t |-> "none", i |-> 0, r |-> Zero]

\* The outcome of a call: the heap after it, the reference returned (0: none)
\* and the exception raised ("": none).
Ok(h, id) == [h |-> h, res |-> id, exc |-> ""]

\* An exception leaves the objects the caller holds (those of h0) as the call
\* left them; objects allocated during the call are unreachable.
Raise(h0, h1, exc) == [h |-> SubSeq(h1, 1, Len(h0)), res |-> 0, exc |-> exc]

\* A call that returns a new object: temporaries allocated on the way are
\* unreachable after it and the result is the one object added to h0.
Collect(h0, r) ==
    IF r.exc # "" THEN Raise(h0, r.h, r.exc)
    ELSE IF r.res <= Len(h0) THEN [r EXCEPT !.h = SubSeq(r.h, 1, Len(h0))]
    ELSE Ok(Append(SubSeq(r.h, 1, Len(h0)), r.h[r.res]), Len(h0) + 1)

----------------------------------------------------------------------------
(* LinExpr: an object is [expr, const, sense] *)

IsReal(o) == o.t = "real"

\* add_var without the deletion of a cancelled entry.
add_var_noprune(e, var, coeff) ==
    IF var \in Keys(e.expr)
    THEN [e EXCEPT !.expr = SetItem(@, var, NAdd(Get(e.expr, var), coeff))]
    ELSE [e EXCEPT !.expr = SetItem(@, var, coeff)]

\* LinExpr.add_var on the object's value.
add_var(e, var, coeff) ==
    IF var \in Keys(e.expr)
    THEN LET s == NAdd(Get(e.expr, var), coeff) IN
         IF NLe(NNeg(EPS), s) /\ NLe(s, EPS)
         THEN [e EXCEPT !.expr = DelItem(@, var)]
         ELSE [e EXCEPT !.expr = SetItem(@, var, s)]
    ELSE [e EXCEPT !.expr = SetItem(@, var, coeff)]

\* self.add_var(var, coeff) on the object self of heap h.
add_var_at(h, self, var, coeff) == [h EXCEPT ![self] = add_var(@, var, coeff)]

\* LinExpr.add_const.
add_const_at(h, self, val) == [h EXCEPT ![self].const = NAdd(@, val)]

\* The for loop of add_expr: an iterator over the items of expr's dict, which
\* is the dict of self when expr is self.  used is the dict's size when the
\* iterator was made; each step first compares it with the size now.
RECURSIVE add_expr_loop(_, _, _, _, _, _)
add_expr_loop(h, self, expr, coeff, pos, used) ==
    IF Len(h[expr].expr) # used THEN [h |-> h, res |-> 0, exc |-> "RuntimeError"]
    ELSE IF pos > Len(h[expr].expr) THEN Ok(h, 0)
    ELSE LET it == h[expr].expr[pos] IN
         add_expr_loop(add_var_at(h, self, it.v, NMul(it.c, coeff)),
                       self, expr, coeff, pos + 1, used)

\* LinExpr.add_expr.
add_expr(h, self, expr, coeff) ==
    LET h1 == add_const_at(h, self, NMul(h[expr].const, coeff)) IN
    add_expr_loop(h1, self, expr, coeff, 1, Len(h1[expr].expr))

\* LinExpr.add_term.
add_term(h, self, term, coeff) ==
    CASE term.t = "var" -> Ok(add_var_at(h, self, term.i, coeff), 0)
      [] term.t = "lin" -> add_expr(h, self, term.i, coeff)
      [] term.t = "real" -> Ok(add_const_at(h, self, term.r), 0)
      [] OTHER -> [h |-> h, res |-> 0, exc |-> "TypeError"]

\* The loop of LinExpr.__init__ over range(len(coeffs)), from index i on.
RECURSIVE init_loop(_, _, _, _)
init_loop(e, variables, coeffs, i) ==
    IF i > Len(coeffs) THEN e
    ELSE IF NLe(NAbs(coeffs[i]), Tol) THEN init_loop(e, variables, coeffs, i + 1)
    ELSE init_loop(add_var(e, variables[i], coeffs[i]), variables, coeffs, i + 1)

\* LinExpr(variables, coeffs, const, sense).
LinExpr_init(h, variables, coeffs, const, sense) ==
    LET e0 == [expr |-> <<>>, const |-> const, sense |-> sense] IN
    IF variables # <<>>
    THEN IF Len(variables) # Len(coeffs) THEN Raise(h, h, "ValueError")
         ELSE Ok(Append(h, init_loop(e0, variables, coeffs, 1)), Len(h) + 1)
    ELSE Ok(Append(h, e0), Len(h) + 1)

\* copy that returns the receiver itself.
copy_alias(h, self) == Ok(h, self)

\* LinExpr.copy: a new object with a copy of the dict.
copy(h, self) == Ok(Append(h, h[self]), Len(h) + 1)

\* The body shared by __add__/__iadd__ (sign = 1) and __sub__/__isub__
\* (sign = -1) once the receiver r of the additions is known.
combine(h, r, other, sign) ==
    CASE other.t = "var" -> Ok(add_var_at(h, r, other.i, sign), r)
      [] other.t = "lin" ->
            LET a == add_expr(h, r, other.i, sign) IN
            [h |-> a.h, res |-> IF a.exc = "" THEN r ELSE 0, exc |-> a.exc]
      [] other.t = "real" -> Ok(add_const_at(h, r, NMul(sign, other.r)), r)
      [] OTHER -> [h |-> h, res |-> 0, exc |-> "TypeError"]

LinExpr_add(h, self, other) ==
    LET c == copy(h, self) IN Collect(h, combine(c.h, c.res, other, One))

LinExpr_radd(h, self, other) == LinExpr_add(h, self, other)

LinExpr_iadd(h, self, other) == combine(h, self, other, One)

LinExpr_sub(h, self, other) ==
    LET c == copy(h, self) IN Collect(h, combine(c.h, c.res, other, MinusOne))

LinExpr_isub(h, self, other) == combine(h, self, other, MinusOne)

RECURSIVE scale_items(_, _)
\* for var in self.__expr.keys(): self.__expr[var] *= other
scale_items(d, k) ==
    IF d = <<>> THEN <<>>
    ELSE <<[Head(d) EXCEPT !.c = NMul(@, k)]>> \o scale_items(Tail(d), k)

\* const and every coefficient of the object times k.
scaled(e, k) == [e EXCEPT !.const = NMul(@, k), !.expr = scale_items(@, k)]

RECURSIVE divide_items(_, _)
\* for var in self.__expr.keys(): self.__expr[var] /= other
divide_items(d, k) ==
    IF d = <<>> THEN <<>>
    ELSE <<[Head(d) EXCEPT !.c = NDiv(@, k)]>> \o divide_items(Tail(d), k)

\* const and every coefficient of the object divided by k.
divided(e, k) == [e EXCEPT !.const = NDiv(@, k), !.expr = divide_items(@, k)]

LinExpr_imul(h, self, other) ==
    IF ~IsReal(other) THEN [h |-> h, res |-> 0, exc |-> "TypeError"]
    ELSE Ok([h EXCEPT ![self] = scaled(@, other.r)], self)

LinExpr_mul(h, self, other) ==
    IF ~IsReal(other) THEN [h |-> h, res |-> 0, exc |-> "TypeError"]
    ELSE LET c == copy(h, self) IN Collect(h, LinExpr_imul(c.h, c.res, other))

LinExpr_rmul(h, self, other) == LinExpr_mul(h, self, other)

LinExpr_itruediv(h, self, other) ==
    IF ~IsReal(other) THEN [h |-> h, res |-> 0, exc |-> "TypeError"]
    ELSE IF other.r = Zero THEN [h |-> h, res |-> 0, exc |-> "ZeroDivisionError"]
    ELSE Ok([h EXCEPT ![self] = divided(@, other.r)], self)

LinExpr_truediv(h, self, other) ==
    IF ~IsReal(other) THEN [h |-> h, res |-> 0, exc |-> "TypeError"]
    ELSE LET c == copy(h, self) IN Collect(h, LinExpr_itruediv(c.h, c.res, other))

LinExpr_neg(h, self) == LinExpr_mul(h, self, RealO(MinusOne))

\* (-self).__add__(other)
LinExpr_rsub(h, self, other) ==
    LET n == LinExpr_neg(h, self) IN Collect(h, LinExpr_add(n.h, n.res, other))

\* The difference returned with the sense it has.
untagged(r, sense) == r

\* result = self - other; result.__sense = sense
tagged(r, sense) ==
    IF r.exc # "" THEN r ELSE [r EXCEPT !.h = [@ EXCEPT ![r.res].sense = sense]]

LinExpr_eq(h, self, other) == tagged(LinExpr_sub(h, self, other), "=")

LinExpr_le(h, self, other) == tagged(LinExpr_sub(h, self, other), "<")

LinExpr_ge(h, self, other) == tagged(LinExpr_sub(h, self, other), ">")

\* The sense setter: self.__sense = value, whatever value is.
set_sense(h, self, value) == Ok([h EXCEPT ![self].sense = value], 0)

----------------------------------------------------------------------------
(* Var: the operators that build a LinExpr from the variable with idx v *)

TypeError(h) == [h |-> h, res |-> 0, exc |-> "TypeError"]

Var_add(h, v, other) ==
    CASE other.t = "var" -> LinExpr_init(h, <<v, other.i>>, <<One, One>>, Zero, "")
      [] other.t = "lin" -> LinExpr_add(h, other.i, VarO(v))
      [] other.t = "real" -> LinExpr_init(h, <<v>>, <<One>>, other.r, "")
      [] OTHER -> TypeError(h)

Var_radd(h, v, other) == Var_add(h, v, other)

\* For a LinExpr: (-other).__iadd__(self)
Var_sub(h, v, other) ==
    CASE other.t = "var" -> LinExpr_init(h, <<v, other.i>>, <<One, MinusOne>>, Zero, "")
      [] other.t = "lin" ->
            LET n == LinExpr_neg(h, other.i) IN
            Collect(h, LinExpr_iadd(n.h, n.res, VarO(v)))
      [] other.t = "real" -> LinExpr_init(h, <<v>>, <<One>>, NNeg(other.r), "")
      [] OTHER -> TypeError(h)

Var_rsub(h, v, other) ==
    CASE other.t = "var" -> LinExpr_init(h, <<v, other.i>>, <<MinusOne, One>>, Zero, "")
      [] other.t = "lin" -> LinExpr_sub(h, other.i, VarO(v))
      [] other.t = "real" -> LinExpr_init(h, <<v>>, <<MinusOne>>, other.r, "")
      [] OTHER -> TypeError(h)

Var_mul(h, v, other) ==
    IF ~IsReal(other) THEN TypeError(h)
    ELSE LinExpr_init(h, <<v>>, <<other.r>>, Zero, "")

Var_rmul(h, v, other) == Var_mul(h, v, other)

\* self.__mul__(1.0 / other)
Var_truediv(h, v, other) ==
    IF ~IsReal(other) THEN TypeError(h)
    ELSE IF other.r = Zero THEN [h |-> h, res |-> 0, exc |-> "ZeroDivisionError"]
    ELSE Var_mul(h, v, RealO(NDiv(One, other.r)))

Var_neg(h, v) == LinExpr_init(h, <<v>>, <<MinusOne>>, Zero, "")

\* The three branches of Var.__eq__/__le__/__ge__ that do not involve a
\* LinExpr: sense is the operator's own sense.
Var_rel(h, v, other, sense) ==
    CASE other.t = "var" -> LinExpr_init(h, <<v, other.i>>, <<One, MinusOne>>, Zero, sense)
      [] other.t = "real" ->
            IF other.r # Zero
            THEN LinExpr_init(h, <<v>>, <<One>>, NMul(MinusOne, other.r), sense)
            ELSE LinExpr_init(h, <<v>>, <<One>>, Zero, sense)
      [] OTHER -> TypeError(h)

\* other == self
Var_eq(h, v, other) ==
    IF other.t = "lin" THEN LinExpr_eq(h, other.i, VarO(v)) ELSE Var_rel(h, v, other, "=")

\* other >= self
Var_le(h, v, other) ==
    IF other.t = "lin" THEN LinExpr_ge(h, other.i, VarO(v)) ELSE Var_rel(h, v, other, "<")

\* other <= self
Var_ge(h, v, other) ==
    IF other.t = "lin" THEN LinExpr_le(h, other.i, VarO(v)) ELSE Var_rel(h, v, other, ">")

----------------------------------------------------------------------------
(* Queries *)

\* equals that compares the items position by position.
equals_ordered(a, b) ==
    /\ a.sense = b.sense
    /\ Len(a.expr) = Len(b.expr)
    /\ NLt(NAbs(NSub(a.const, b.const)), Tol)
    /\ \A i \in DOMAIN a.expr :
            /\ a.expr[i].v = b.expr[i].v
            /\ ~NLt(Tol, NAbs(NSub(a.expr[i].c, b.expr[i].c)))

\* LinExpr.equals.
equals(a, b) ==
    IF a.sense # b.sense THEN FALSE
    ELSE IF Len(a.expr) # Len(b.expr) THEN FALSE
    ELSE IF NLe(Tol, NAbs(NSub(a.const, b.const))) THEN FALSE
    ELSE \A i \in DOMAIN a.expr :
            /\ a.expr[i].v \in Keys(b.expr)
            /\ ~NLt(Tol, NAbs(NSub(a.expr[i].c, Get(b.expr, a.expr[i].v))))

\* A value a solver accessor returns: a number, or None.
Known(n) == [known |-> TRUE, val |-> n]

None == [known |-> FALSE, val |-> Zero]

\* The loop of LinExpr.x from item pos on, with the sum so far; sol[v] is what
\* solver.var_get_x returns for the variable v.
RECURSIVE x_loop(_, _, _, _)
x_loop(e, sol, pos, acc) ==
    IF pos > Len(e.expr) THEN Known(acc)
    ELSE IF ~sol[e.expr[pos].v].known THEN None
    ELSE x_loop(e, sol, pos + 1, NAdd(acc, NMul(sol[e.expr[pos].v].val, e.expr[pos].c)))

\* LinExpr.x: the outcome is [exc, ret].
x(e, sol) == [exc |-> "", ret |-> x_loop(e, sol, 1, e.const)]

\* sum(coef * var.x for ...): coef * None raises TypeError.
RECURSIVE lhs_sum(_, _, _, _)
lhs_sum(e, sol, pos, acc) ==
    IF pos > Len(e.expr) THEN [exc |-> "", ret |-> Known(acc)]
    ELSE IF ~sol[e.expr[pos].v].known THEN [exc |-> "TypeError", ret |-> None]
    ELSE lhs_sum(e, sol, pos + 1, NAdd(acc, NMul(e.expr[pos].c, sol[e.expr[pos].v].val)))

\* violation without the clamp at zero.
violation_signed(e, sol) ==
    LET l == lhs_sum(e, sol, 1, Zero)
        d == NSub(l.ret.val, NNeg(e.const))
    IN  IF l.exc # "" THEN l
        ELSE CASE e.sense = "=" -> [exc |-> "", ret |-> Known(NAbs(d))]
               [] e.sense = "<" -> [exc |-> "", ret |-> Known(d)]
               [] e.sense = ">" -> [exc |-> "", ret |-> Known(NNeg(d))]
               [] OTHER -> [exc |-> "ValueError", ret |-> None]

\* LinExpr.violation.
violation(e, sol) ==
    LET l == lhs_sum(e, sol, 1, Zero)
        lhs == l.ret.val
        rhs == NNeg(e.const)
    IN  IF l.exc # "" THEN l
        ELSE CASE e.sense = "=" -> [exc |-> "", ret |-> Known(NAbs(NSub(lhs, rhs)))]
               [] e.sense = "<" -> [exc |-> "", ret |-> Known(NMax(NSub(lhs, rhs), Zero))]
               [] e.sense = ">" -> [exc |-> "", ret |-> Known(NMax(NSub(rhs, lhs), Zero))]
               [] OTHER -> [exc |-> "ValueError", ret |-> None]

----------------------------------------------------------------------------
(* ConflictGraph *)

\* isinstance(obj, [LinExpr, Var]): the second argument is a list, which
\* isinstance refuses whatever obj is.
isinstance_list(obj) == [exc |-> "TypeError", val |-> obj.t \in {"lin", "var"}]

\* e1.model.solver: Var.model is a method, so e1.model is a bound method with
\* no attribute solver; LinExpr.model subscripts dict.keys() or returns None.
model_solver(h, e1) ==
    IF e1.t = "var" THEN "AttributeError"
    ELSE IF h[e1.i].expr = <<>> THEN "AttributeError"
    ELSE "TypeError"

\* ConflictGraph.conflicting; answer is what solver.conflicting would return.
\* The outcome is [exc, delegated, ret].
conflicting(h, e1, e2, answer) ==
    LET c1 == isinstance_list(e1)
        c2 == isinstance_list(e2)
    IN  IF c1.exc # "" THEN [exc |-> c1.exc, delegated |-> FALSE, ret |-> FALSE]
        ELSE IF c1.val THEN [exc |-> "TypeError", delegated |-> FALSE, ret |-> FALSE]
        ELSE IF c2.exc # "" THEN [exc |-> c2.exc, delegated |-> FALSE, ret |-> FALSE]
        ELSE IF c2.val THEN [exc |-> "TypeError", delegated |-> FALSE, ret |-> FALSE]
        ELSE IF e1.t \notin {"var", "lin"}
             THEN [exc |-> "AttributeError", delegated |-> FALSE, ret |-> FALSE]
        ELSE IF model_solver(h, e1) # ""
             THEN [exc |-> model_solver(h, e1), delegated |-> FALSE, ret |-> FALSE]
        ELSE [exc |-> "", delegated |-> TRUE, ret |-> answer]

----------------------------------------------------------------------------
(* Inputs of the client *)

\* Number of variable handles of the model (Var.idx ranges over 1..NVars).
NVars == 2

\* Operations a client performs on the expressions it has built.
MaxOps == 1

Vars == 1..NVars

\* Real operands of the binary operators.
OperandReals == {Zero, Two}

\* Factors of *, /, add_term and add_expr.
Scalars == {Zero, MinusOne, Two}

\* Coefficients given to add_var and constants given to add_const.
Coeffs == {Zero, Tol, Num(0, -2), MinusOne}

\* Arguments of the constructor.
VarLists == {<<>>, <<1>>, <<1, 2>>, <<2, 1>>, <<1, 1>>}

CtorCoeffs == {Tol, Num(0, 2), Num(0, -3)}

CoeffLists ==
    {<<>>} \cup {<<c>> : c \in CtorCoeffs} \cup {<<c, d>> : c, d \in CtorCoeffs}

\* What solver.var_get_x returns for a variable.
SolVals == {None, Known(One), Known(Two)}

\* The solutions x and violation are read under: each variable unknown or known.
Sols == [Vars -> {None, Known(Two)}]

NoSol == [v \in Vars |-> None]

\* The expressions a client holds before it combines them: two expressions,
\* each built by the constructor from one of these argument tuples.
ArgsA == <<<<1, 2>>, <<Two, Num(0, 2)>>, Zero, "">>

ArgsB == <<<<2, 1>>, <<Num(0, 3), Two>>, Zero, "">>

ArgsC == <<<<1>>, <<MinusOne>>, Tol, "<">>

ArgsD == <<<<1>>, <<MinusOne>>, Zero, "<">>

ArgsE == <<<<>>, <<>>, Two, "=">>

InitPairs ==
    { <<ArgsA, ArgsB>>, <<ArgsC, ArgsD>>, <<ArgsA, ArgsC>>, <<ArgsE, ArgsD>> }

Built(a) == LinExpr_init(<<>>, a[1], a[2], a[3], a[4]).h[1]

InitHeaps == {<<Built(q[1]), Built(q[2])>> : q \in InitPairs}

Refs(h) == 1..Len(h)

Operands(h) ==
    {VarO(v) : v \in Vars} \cup {LinO(i) : i \in Refs(h)}
        \cup {RealO(r) : r \in OperandReals} \cup {OtherO}

Factors == {RealO(k) : k \in Scalars} \cup {OtherO}

\* Values assigned to sense: the setter stores any value, so one that is
\* no sense is among them.
SenseValues == Senses \cup {"?"}

\* Arguments given to ConflictGraph.conflicting.
ConflictArgs == {VarO(1), VarO(2), LinO(1), OtherO}

----------------------------------------------------------------------------
(* State: heap, the heap before the last call (pre), the last call with its
   arguments and outcome (last), the number of calls made (pc), and the
   inputs of a scripted client (inp). *)

Call(op) ==
    [op |-> op, self |-> NoneO, other |-> NoneO, k |-> Zero, vs |-> <<>>,
     cs |-> <<>>, sense |-> "", sol |-> NoSol, answer |-> FALSE,
     res |-> 0, exc |-> "", ret |-> None, bool |-> FALSE, delegated |-> FALSE]

NoInp == [script |-> "none"]

\* A call that may change the heap: out is [h, res, exc].
Apply(c, out) ==
    /\ heap' = out.h
    /\ pre' = heap
    /\ last' = [c EXCEPT !.res = out.res, !.exc = out.exc]
    /\ pc' = pc + 1
    /\ UNCHANGED inp

\* A query: q is [exc, ret]; the heap stays.
Query(c, q) ==
    /\ heap' = heap
    /\ pre' = heap
    /\ last' = [c EXCEPT !.exc = q.exc, !.ret = q.ret]
    /\ pc' = pc + 1
    /\ UNCHANGED inp

Init ==
    /\ heap \in InitHeaps
    /\ pre = heap
    /\ last = Call("")
    /\ pc = 0
    /\ inp = NoInp

Free == pc < MaxOps

----------------------------------------------------------------------------
(* Operations *)

Construct ==
    \E vs \in VarLists, cs \in CoeffLists :
        /\ Free
        /\ Apply([Call("LinExpr_init") EXCEPT !.vs = vs, !.cs = cs],
                 LinExpr_init(heap, vs, cs, Zero, ""))

VarAdd ==
    \E v \in Vars, o \in Operands(heap) :
        /\ Free
        /\ Apply([Call("Var_add") EXCEPT !.self = VarO(v), !.other = o],
                 Var_add(heap, v, o))

VarRadd ==
    \E v \in Vars, o \in Operands(heap) :
        /\ Free
        /\ Apply([Call("Var_radd") EXCEPT !.self = VarO(v), !.other = o],
                 Var_radd(heap, v, o))

VarSub ==
    \E v \in Vars, o \in Operands(heap) :
        /\ Free
        /\ Apply([Call("Var_sub") EXCEPT !.self = VarO(v), !.other = o],
                 Var_sub(heap, v, o))

VarRsub ==
    \E v \in Vars, o \in Operands(heap) :
        /\ Free
        /\ Apply([Call("Var_rsub") EXCEPT !.self = VarO(v), !.other = o],
                 Var_rsub(heap, v, o))

VarEq ==
    \E v \in Vars, o \in Operands(heap) :
        /\ Free
        /\ Apply([Call("Var_eq") EXCEPT !.self = VarO(v), !.other = o],
                 Var_eq(heap, v, o))

VarLe ==
    \E v \in Vars, o \in Operands(heap) :
        /\ Free
        /\ Apply([Call("Var_le") EXCEPT !.self = VarO(v), !.other = o],
                 Var_le(heap, v, o))

VarGe ==
    \E v \in Vars, o \in Operands(heap) :
        /\ Free
        /\ Apply([Call("Var_ge") EXCEPT !.self = VarO(v), !.other = o],
                 Var_ge(heap, v, o))

VarMul ==
    \E v \in Vars, o \in Factors :
        /\ Free
        /\ Apply([Call("Var_mul") EXCEPT !.self = VarO(v), !.other = o],
                 Var_mul(heap, v, o))

VarRmul ==
    \E v \in Vars, o \in Factors :
        /\ Free
        /\ Apply([Call("Var_rmul") EXCEPT !.self = VarO(v), !.other = o],
                 Var_rmul(heap, v, o))

VarTruediv ==
    \E v \in Vars, o \in Factors :
        /\ Free
        /\ Apply([Call("Var_truediv") EXCEPT !.self = VarO(v), !.other = o],
                 Var_truediv(heap, v, o))

VarNeg ==
    \E v \in Vars :
        /\ Free
        /\ Apply([Call("Var_neg") EXCEPT !.self = VarO(v)], Var_neg(heap, v))

Add ==
    \E i \in Refs(heap), o \in Operands(heap) :
        /\ Free
        /\ Apply([Call("LinExpr_add") EXCEPT !.self = LinO(i), !.other = o],
                 LinExpr_add(heap, i, o))

Radd ==
    \E i \in Refs(heap), o \in Operands(heap) :
        /\ Free
        /\ Apply([Call("LinExpr_radd") EXCEPT !.self = LinO(i), !.other = o],
                 LinExpr_radd(heap, i, o))

Iadd ==
    \E i \in Refs(heap), o \in Operands(heap) :
        /\ Free
        /\ Apply([Call("LinExpr_iadd") EXCEPT !.self = LinO(i), !.other = o],
                 LinExpr_iadd(heap, i, o))

Sub ==
    \E i \in Refs(heap), o \in Operands(heap) :
        /\ Free
        /\ Apply([Call("LinExpr_sub") EXCEPT !.self = LinO(i), !.other = o],
                 LinExpr_sub(heap, i, o))

Rsub ==
    \E i \in Refs(heap), o \in Operands(heap) :
        /\ Free
        /\ Apply([Call("LinExpr_rsub") EXCEPT !.self = LinO(i), !.other = o],
                 LinExpr_rsub(heap, i, o))

Isub ==
    \E i \in Refs(heap), o \in Operands(heap) :
        /\ Free
        /\ Apply([Call("LinExpr_isub") EXCEPT !.self = LinO(i), !.other = o],
                 LinExpr_isub(heap, i, o))

Eq ==
    \E i \in Refs(heap), o \in Operands(heap) :
        /\ Free
        /\ Apply([Call("LinExpr_eq") EXCEPT !.self = LinO(i), !.other = o],
                 LinExpr_eq(heap, i, o))

Le ==
    \E i \in Refs(heap), o \in Operands(heap) :
        /\ Free
        /\ Apply([Call("LinExpr_le") EXCEPT !.self = LinO(i), !.other = o],
                 LinExpr_le(heap, i, o))

Ge ==
    \E i \in Refs(heap), o \in Operands(heap) :
        /\ Free
        /\ Apply([Call("LinExpr_ge") EXCEPT !.self = LinO(i), !.other = o],
                 LinExpr_ge(heap, i, o))

Mul ==
    \E i \in Refs(heap), o \in Factors :
        /\ Free
        /\ Apply([Call("LinExpr_mul") EXCEPT !.self = LinO(i), !.other = o],
                 LinExpr_mul(heap, i, o))

Rmul ==
    \E i \in Refs(heap), o \in Factors :
        /\ Free
        /\ Apply([Call("LinExpr_rmul") EXCEPT !.self = LinO(i), !.other = o],
                 LinExpr_rmul(heap, i, o))

Imul ==
    \E i \in Refs(heap), o \in Factors :
        /\ Free
        /\ Apply([Call("LinExpr_imul") EXCEPT !.self = LinO(i), !.other = o],
                 LinExpr_imul(heap, i, o))

Truediv ==
    \E i \in Refs(heap), o \in Factors :
        /\ Free
        /\ Apply([Call("LinExpr_truediv") EXCEPT !.self = LinO(i), !.other = o],
                 LinExpr_truediv(heap, i, o))

Itruediv ==
    \E i \in Refs(heap), o \in Factors :
        /\ Free
        /\ Apply([Call("LinExpr_itruediv") EXCEPT !.self = LinO(i), !.other = o],
                 LinExpr_itruediv(heap, i, o))

Neg ==
    \E i \in Refs(heap) :
        /\ Free
        /\ Apply([Call("LinExpr_neg") EXCEPT !.self = LinO(i)], LinExpr_neg(heap, i))

Copy ==
    \E i \in Refs(heap) :
        /\ Free
        /\ Apply([Call("copy") EXCEPT !.self = LinO(i)], copy(heap, i))

SetSense ==
    \E i \in Refs(heap), value \in SenseValues :
        /\ Free
        /\ Apply([Call("set_sense") EXCEPT !.self = LinO(i), !.sense = value],
                 set_sense(heap, i, value))

AddConst ==
    \E i \in Refs(heap), c \in Coeffs :
        /\ Free
        /\ Apply([Call("add_const") EXCEPT !.self = LinO(i), !.k = c],
                 Ok(add_const_at(heap, i, c), 0))

AddVar ==
    \E i \in Refs(heap), v \in Vars, c \in Coeffs :
        /\ Free
        /\ Apply([Call("add_var") EXCEPT !.self = LinO(i), !.other = VarO(v), !.k = c],
                 Ok(add_var_at(heap, i, v, c), 0))

AddTerm ==
    \E i \in Refs(heap), o \in Operands(heap), k \in Scalars :
        /\ Free
        /\ Apply([Call("add_term") EXCEPT !.self = LinO(i), !.other = o, !.k = k],
                 add_term(heap, i, o, k))

AddExpr ==
    \E i \in Refs(heap), j \in Refs(heap), k \in Scalars :
        /\ Free
        /\ Apply([Call("add_expr") EXCEPT !.self = LinO(i), !.other = LinO(j), !.k = k],
                 add_expr(heap, i, j, k))

Equals ==
    \E i \in Refs(heap), j \in Refs(heap) :
        /\ Free
        /\ Query([Call("equals") EXCEPT !.self = LinO(i), !.other = LinO(j),
                                        !.bool = equals(heap[i], heap[j])],
                 [exc |-> "", ret |-> None])

X ==
    \E i \in Refs(heap), sol \in Sols :
        /\ Free
        /\ Query([Call("x") EXCEPT !.self = LinO(i), !.sol = sol], x(heap[i], sol))

Violation ==
    \E i \in Refs(heap), sol \in Sols :
        /\ Free
        /\ Query([Call("violation") EXCEPT !.self = LinO(i), !.sol = sol],
                 violation(heap[i], sol))

Conflicting ==
    \E e1 \in ConflictArgs, e2 \in ConflictArgs, answer \in BOOLEAN :
        /\ Free
        /\ LET q == conflicting(heap, e1, e2, answer) IN
           Query([Call("conflicting") EXCEPT !.self = e1, !.other = e2,
                                             !.answer = answer,
                                             !.bool = q.ret,
                                             !.delegated = q.delegated],
                 [exc |-> q.exc, ret |-> None])

Next ==
    \/ Construct
    \/ VarAdd \/ VarRadd \/ VarSub \/ VarRsub \/ VarEq \/ VarLe \/ VarGe
    \/ VarMul \/ VarRmul \/ VarTruediv \/ VarNeg
    \/ Add \/ Radd \/ Iadd \/ Sub \/ Rsub \/ Isub \/ Eq \/ Le \/ Ge
    \/ Mul \/ Rmul \/ Imul \/ Truediv \/ Itruediv \/ Neg \/ Copy
    \/ SetSense \/ AddConst \/ AddVar \/ AddTerm \/ AddExpr
    \/ Equals \/ X \/ Violation \/ Conflicting

Spec == Init /\ [][Next]_vars

----------------------------------------------------------------------------
(* Properties of the operations, over the last call and the heap before it *)

ItemSet(d) == {d[i] : i \in DOMAIN d}

Sparse(e) == \A i \in DOMAIN e.expr : NLt(Tol, NAbs(e.expr[i].c))

AllSparse(h) == \A i \in DOMAIN h : Sparse(h[i])

\* The operators that return a new expression.
NewExprOps ==
    {"Var_add", "Var_radd", "Var_sub", "Var_rsub", "Var_mul", "Var_rmul",
     "Var_truediv", "Var_neg", "Var_eq", "Var_le", "Var_ge",
     "LinExpr_add", "LinExpr_radd", "LinExpr_sub", "LinExpr_rsub",
     "LinExpr_mul", "LinExpr_rmul", "LinExpr_truediv", "LinExpr_neg",
     "LinExpr_eq", "LinExpr_le", "LinExpr_ge"}

\* C1: after any sequence of the public operations, no LinExpr stores a
\* coefficient of magnitude <= 1e-12.
C1_SparseAlways == AllSparse(heap)

\* C2: an operator that returns a new expression leaves every LinExpr that
\* existed before the call as it was: items (in order), const and sense.
C2_OperandsUnchanged ==
    last.op \in NewExprOps =>
        /\ Len(heap) >= Len(pre)
        /\ \A i \in DOMAIN pre : heap[i] = pre[i]

\* Var - LinExpr returned a new expression that differs from the operand.
C2_Witness ==
    /\ last.op = "Var_sub" /\ last.other.t = "lin" /\ last.exc = ""
    /\ last.res = Len(pre) + 1
    /\ heap[last.res] # pre[last.other.i]
    /\ heap[last.other.i] = pre[last.other.i]

RelOps == {"Var_eq", "Var_le", "Var_ge", "LinExpr_eq", "LinExpr_le", "LinExpr_ge"}

RelSense(op) ==
    CASE op \in {"Var_eq", "LinExpr_eq"} -> "="
      [] op \in {"Var_le", "LinExpr_le"} -> "<"
      [] op \in {"Var_ge", "LinExpr_ge"} -> ">"

Flipped(sense) == CASE sense = "<" -> ">" [] sense = ">" -> "<" [] OTHER -> sense

\* a - b as the operator - computes it from the heap h.
Minus(h, a, b) ==
    LET r == IF a.t = "var" THEN Var_sub(h, a.i, b) ELSE LinExpr_sub(h, a.i, b)
    IN  r.h[r.res]

SameTerms(e, f) == ItemSet(e.expr) = ItemSet(f.expr) /\ e.const = f.const

Supported(o) == o.t \in {"var", "lin", "real"}

\* x <= y for two different variables: {x: 1, y: -1}, const 0, sense "<".
VarLeVarExample ==
    (last.op = "Var_le" /\ last.other.t = "var" /\ last.other.i # last.self.i) =>
        heap[last.res] =
            [expr |-> <<[v |-> last.self.i, c |-> One], [v |-> last.other.i, c |-> MinusOne]>>,
             const |-> Zero, sense |-> "<"]

\* C3 as claimed: self <= other, self >= other, self == other return the
\* coefficients and constant of self - other with sense "<", ">", "=".
C3_RelIsSelfMinusOther ==
    (last.op \in RelOps /\ Supported(last.other)) =>
        /\ last.exc = ""
        /\ SameTerms(heap[last.res], Minus(pre, last.self, last.other))
        /\ heap[last.res].sense = RelSense(last.op)
        /\ VarLeVarExample

\* C3 amended: as claimed, except that a Var compared with a LinExpr returns
\* the coefficients and constant of other - self with the mirrored sense
\* (">" for <=, "<" for >=, "=" for ==).
C3_RelAmended ==
    (last.op \in RelOps /\ Supported(last.other)) =>
        /\ last.exc = ""
        /\ IF last.self.t = "var" /\ last.other.t = "lin"
           THEN /\ SameTerms(heap[last.res], Minus(pre, last.other, last.self))
                /\ heap[last.res].sense = Flipped(RelSense(last.op))
           ELSE /\ SameTerms(heap[last.res], Minus(pre, last.self, last.other))
                /\ heap[last.res].sense = RelSense(last.op)
        /\ VarLeVarExample

\* Var <= LinExpr returned other - self, which is not self - other, with ">".
C3_Witness ==
    /\ last.op = "Var_le" /\ last.other.t = "lin" /\ last.exc = ""
    /\ heap[last.res].sense = ">"
    /\ ~SameTerms(heap[last.res], Minus(pre, last.self, last.other))

\* The variables an expression stores with a coefficient other than zero.
NonZeroVars(e) == {e.expr[i].v : i \in {j \in DOMAIN e.expr : e.expr[j].c # Zero}}

Within(a, b) == NLe(NAbs(NSub(a, b)), Tol)

\* Equality of two expressions as the specification describes it.
SameExpression(a, b) ==
    /\ a.sense = b.sense
    /\ NonZeroVars(a) = NonZeroVars(b)
    /\ \A v \in NonZeroVars(a) : Within(Get(a.expr, v), Get(b.expr, v))
    /\ Within(a.const, b.const)

\* C5: equals(other) is true exactly when sense, non-zero variables,
\* coefficients (within 1e-12) and constants (within 1e-12) agree, and it is
\* symmetric.
C5_EqualsIsSameExpression ==
    last.op = "equals" =>
        /\ last.bool = SameExpression(pre[last.self.i], pre[last.other.i])
        /\ last.bool = equals(pre[last.other.i], pre[last.self.i])

BothLiterals(c) == c.self.t \in {"var", "lin"} /\ c.other.t \in {"var", "lin"}

\* C7: conflicting raises TypeError exactly when an argument is neither a Var
\* nor a LinExpr, and then does not call the solver; otherwise it returns the
\* solver's answer.
C7_TypeGuard ==
    last.op = "conflicting" =>
        /\ (last.exc = "TypeError") <=> ~BothLiterals(last)
        /\ ~BothLiterals(last) => ~last.delegated
        /\ BothLiterals(last) =>
              last.exc = "" /\ last.delegated /\ last.bool = last.answer

HasUnknown(e, sol) == \E i \in DOMAIN e.expr : ~sol[e.expr[i].v].known

\* C8: x and violation of an expression with a variable of unknown value
\* return None: no number, no exception.
C8_UnknownPropagates ==
    (last.op \in {"x", "violation"} /\ HasUnknown(pre[last.self.i], last.sol)) =>
        last.exc = "" /\ ~last.ret.known

\* C10: the constructor raises when the two lists differ in length, and then
\* constructs nothing.
C10_LengthMismatch ==
    (last.op = "LinExpr_init" /\ Len(last.vs) # Len(last.cs)) =>
        last.exc = "ValueError" /\ last.res = 0 /\ heap = pre

----------------------------------------------------------------------------
(* Scripted clients: the inputs are drawn in the initial state (inp) and the
   calls are made in program order, one per step. *)

Step(op, self, other, out) ==
    Apply([Call(op) EXCEPT !.self = self, !.other = other], out)

Start(h, i) ==
    /\ heap = h
    /\ pre = h
    /\ last = Call("")
    /\ pc = 0
    /\ inp = i

(* Cancellation: e.add_var(v, c); e.add_var(v, -c) on an expression e with no
   entry for v, then  e = k1*x1 - k2*x2 + k;  e2 = e + x2*k2. *)

CancelCoeffs == {Zero, Tol, Num(0, 2), One, MinusOne, FromInt(3)}

BuildCoeffs == {FromInt(3), Two, MinusOne}

BuildConsts == {FromInt(5), Zero}

CancelInputs ==
    {i \in [q : {ArgsA, ArgsC, ArgsE}, v : Vars, c : CancelCoeffs, x1 : Vars,
            x2 : Vars, k1 : {FromInt(3), MinusOne}, k2 : {Two, FromInt(3)},
            k : BuildConsts] :
        i.v \notin Keys(Built(i.q).expr) /\ i.x1 # i.x2}

InitCancel == \E i \in CancelInputs : Start(<<Built(i.q)>>, i)

CancelAdd ==
    /\ pc = 0
    /\ Apply([Call("add_var") EXCEPT !.self = LinO(1), !.other = VarO(inp.v), !.k = inp.c],
             Ok(add_var_at(heap, 1, inp.v, inp.c), 0))

CancelAddOpposite ==
    /\ pc = 1
    /\ Apply([Call("add_var") EXCEPT !.self = LinO(1), !.other = VarO(inp.v),
                                     !.k = NNeg(inp.c)],
             Ok(add_var_at(heap, 1, inp.v, NNeg(inp.c)), 0))

\* k1 * x1
BuildFirstTerm ==
    pc = 2 /\ Step("Var_rmul", VarO(inp.x1), RealO(inp.k1),
                   Var_rmul(heap, inp.x1, RealO(inp.k1)))

\* k2 * x2
BuildSecondTerm ==
    pc = 3 /\ Step("Var_rmul", VarO(inp.x2), RealO(inp.k2),
                   Var_rmul(heap, inp.x2, RealO(inp.k2)))

\* k1*x1 - k2*x2
BuildDifference ==
    pc = 4 /\ Step("LinExpr_sub", LinO(2), LinO(3), LinExpr_sub(heap, 2, LinO(3)))

\* e = (k1*x1 - k2*x2) + k
BuildE ==
    pc = 5 /\ Step("LinExpr_add", LinO(4), RealO(inp.k), LinExpr_add(heap, 4, RealO(inp.k)))

\* x2 * k2
BuildThirdTerm ==
    pc = 6 /\ Step("Var_mul", VarO(inp.x2), RealO(inp.k2),
                   Var_mul(heap, inp.x2, RealO(inp.k2)))

\* e2 = e + x2*k2
BuildE2 ==
    pc = 7 /\ Step("LinExpr_add", LinO(5), LinO(6), LinExpr_add(heap, 5, LinO(6)))

NextCancel ==
    \/ CancelAdd \/ CancelAddOpposite
    \/ BuildFirstTerm \/ BuildSecondTerm \/ BuildDifference \/ BuildE
    \/ BuildThirdTerm \/ BuildE2

SpecCancel == InitCancel /\ [][NextCancel]_vars

\* C4: after add_var(v, c) and add_var(v, -c) on an expression that had no
\* entry for v, it has none; e = k1*x1 - k2*x2 + k has const k and expr
\* {x1: k1, x2: -k2}, and e2 = e + x2*k2 has no entry for x2, x1 with k1 and
\* const k (the specification's case is k1 = 3, k2 = 2, k = 5).
C4_Cancellation ==
    /\ pc >= 2 => inp.v \notin Keys(heap[1].expr)
    /\ pc >= 6 =>
          /\ heap[5].const = inp.k
          /\ ItemSet(heap[5].expr) =
                {[v |-> inp.x1, c |-> inp.k1], [v |-> inp.x2, c |-> NNeg(inp.k2)]}
    /\ pc = 8 =>
          /\ inp.x2 \notin Keys(heap[7].expr)
          /\ ItemSet(heap[7].expr) = {[v |-> inp.x1, c |-> inp.k1]}
          /\ heap[7].const = inp.k

\* The run with c = 1 and e = 3*x1 - 2*x2 + 5, at its end.
C4_Witness ==
    /\ pc = 8
    /\ inp.c = One /\ inp.k1 = FromInt(3) /\ inp.k2 = Two /\ inp.k = FromInt(5)
    /\ inp.v \notin Keys(heap[1].expr)
    /\ heap[5].expr = <<[v |-> inp.x1, c |-> FromInt(3)], [v |-> inp.x2, c |-> FromInt(-2)]>>
    /\ heap[7].expr = <<[v |-> inp.x1, c |-> FromInt(3)]>>
    /\ heap[7].const = FromInt(5)

(* Commutativity: (c1*a + c2*b).equals(c2*b + c1*a), then
   ((a + b) + 0).equals(a + b). *)

CommCoeffs == {Zero, Tol, Num(0, 2), Num(0, -3), One, MinusOne}

CommInputs == [a : Vars, b : Vars, c1 : CommCoeffs, c2 : CommCoeffs]

InitComm == \E i \in CommInputs : Start(<<>>, i)

\* c1 * a
CommLeftFirst ==
    pc = 0 /\ Step("Var_rmul", VarO(inp.a), RealO(inp.c1),
                   Var_rmul(heap, inp.a, RealO(inp.c1)))

\* c2 * b
CommLeftSecond ==
    pc = 1 /\ Step("Var_rmul", VarO(inp.b), RealO(inp.c2),
                   Var_rmul(heap, inp.b, RealO(inp.c2)))

\* c1*a + c2*b
CommLeftSum ==
    pc = 2 /\ Step("LinExpr_add", LinO(1), LinO(2), LinExpr_add(heap, 1, LinO(2)))

\* c2 * b
CommRightFirst ==
    pc = 3 /\ Step("Var_rmul", VarO(inp.b), RealO(inp.c2),
                   Var_rmul(heap, inp.b, RealO(inp.c2)))

\* c1 * a
CommRightSecond ==
    pc = 4 /\ Step("Var_rmul", VarO(inp.a), RealO(inp.c1),
                   Var_rmul(heap, inp.a, RealO(inp.c1)))

\* c2*b + c1*a
CommRightSum ==
    pc = 5 /\ Step("LinExpr_add", LinO(4), LinO(5), LinExpr_add(heap, 4, LinO(5)))

\* (c1*a + c2*b).equals(c2*b + c1*a)
CommEquals ==
    /\ pc = 6
    /\ Query([Call("equals") EXCEPT !.self = LinO(3), !.other = LinO(6),
                                    !.bool = equals(heap[3], heap[6])],
             [exc |-> "", ret |-> None])

\* a + b
CommPlain ==
    pc = 7 /\ Step("Var_add", VarO(inp.a), VarO(inp.b), Var_add(heap, inp.a, VarO(inp.b)))

\* (a + b) + 0
CommPlusZero ==
    pc = 8 /\ Step("LinExpr_add", LinO(7), RealO(Zero), LinExpr_add(heap, 7, RealO(Zero)))

\* a + b
CommPlainAgain ==
    pc = 9 /\ Step("Var_add", VarO(inp.a), VarO(inp.b), Var_add(heap, inp.a, VarO(inp.b)))

\* ((a + b) + 0).equals(a + b)
CommZeroEquals ==
    /\ pc = 10
    /\ Query([Call("equals") EXCEPT !.self = LinO(8), !.other = LinO(9),
                                    !.bool = equals(heap[8], heap[9])],
             [exc |-> "", ret |-> None])

NextComm ==
    \/ CommLeftFirst \/ CommLeftSecond \/ CommLeftSum
    \/ CommRightFirst \/ CommRightSecond \/ CommRightSum \/ CommEquals
    \/ CommPlain \/ CommPlusZero \/ CommPlainAgain \/ CommZeroEquals

SpecComm == InitComm /\ [][NextComm]_vars

\* C6: (c1*a + c2*b).equals(c2*b + c1*a) and ((a + b) + 0).equals(a + b)
\* are true for all variables a, b and reals c1, c2.
C6_Commutes ==
    pc \in {7, 11} => (last.op = "equals" /\ last.exc = "" /\ last.bool)

\* Two different variables, both kept: the two sums hold the same items in
\* opposite insertion order and equals has returned true.
C6_Witness ==
    /\ pc = 7 /\ last.op = "equals" /\ last.bool
    /\ inp.a # inp.b
    /\ Len(heap[3].expr) = 2
    /\ heap[3].expr # heap[6].expr

(* Violation: c = (a + b REL k); c.violation with solver values sol. *)

RhsVals == {FromInt(10), FromInt(4)}

ViolSols == [Vars -> {Known(Two), Known(FromInt(3)), Known(FromInt(5)), Known(FromInt(7))}]

ViolInputs == [a : Vars, b : Vars, sense : {"=", "<", ">"}, k : RhsVals, sol : ViolSols]

InitViol == \E i \in ViolInputs : Start(<<>>, i)

\* a + b
ViolSum ==
    pc = 0 /\ Step("Var_add", VarO(inp.a), VarO(inp.b), Var_add(heap, inp.a, VarO(inp.b)))

\* a + b == k
ViolEq ==
    pc = 1 /\ inp.sense = "="
        /\ Step("LinExpr_eq", LinO(1), RealO(inp.k), LinExpr_eq(heap, 1, RealO(inp.k)))

\* a + b <= k
ViolLe ==
    pc = 1 /\ inp.sense = "<"
        /\ Step("LinExpr_le", LinO(1), RealO(inp.k), LinExpr_le(heap, 1, RealO(inp.k)))

\* a + b >= k
ViolGe ==
    pc = 1 /\ inp.sense = ">"
        /\ Step("LinExpr_ge", LinO(1), RealO(inp.k), LinExpr_ge(heap, 1, RealO(inp.k)))

ViolRead ==
    /\ pc = 2
    /\ Query([Call("violation") EXCEPT !.self = LinO(2), !.sol = inp.sol],
             violation(heap[2], inp.sol))

NextViol == ViolSum \/ ViolEq \/ ViolLe \/ ViolGe \/ ViolRead

SpecViol == InitViol /\ [][NextViol]_vars

\* The value of a + b in the solution.
LhsValue == NAdd(inp.sol[inp.a].val, inp.sol[inp.b].val)

Satisfied ==
    CASE inp.sense = "=" -> LhsValue = inp.k
      [] inp.sense = "<" -> NLe(LhsValue, inp.k)
      [] inp.sense = ">" -> NLe(inp.k, LhsValue)

ExpectedViolation ==
    CASE inp.sense = "=" -> NAbs(NSub(LhsValue, inp.k))
      [] inp.sense = "<" -> NMax(NSub(LhsValue, inp.k), Zero)
      [] inp.sense = ">" -> NMax(NSub(inp.k, LhsValue), Zero)

ViolExample(sense, va, vb, viol) ==
    (/\ inp.a # inp.b /\ inp.sense = sense /\ inp.k = FromInt(10)
     /\ inp.sol[inp.a] = Known(FromInt(va)) /\ inp.sol[inp.b] = Known(FromInt(vb)))
        => last.ret = Known(FromInt(viol))

\* C9: with every value known, violation is |lhs - rhs| for "=", max(lhs - rhs, 0)
\* for "<" and max(rhs - lhs, 0) for ">", where rhs = -const: never negative,
\* 0 exactly when the constraint holds; x + y <= 10 at 7, 5 gives 2,
\* x + y == 10 at 7, 2 gives 1, x + y >= 10 at 3, 3 gives 4.
C9_Violation ==
    pc = 3 =>
        /\ last.exc = "" /\ last.ret = Known(ExpectedViolation)
        /\ heap[2].const = NNeg(inp.k)
        /\ NLe(Zero, last.ret.val)
        /\ (last.ret.val = Zero) <=> Satisfied
        /\ ViolExample("<", 7, 5, 2)
        /\ ViolExample("=", 7, 2, 1)
        /\ ViolExample(">", 3, 3, 4)

\* x + y <= 10 read at x = 7, y = 5.
C9_Witness ==
    /\ pc = 3 /\ last.op = "violation" /\ inp.a # inp.b
    /\ inp.sense = "<" /\ inp.k = FromInt(10)
    /\ inp.sol[inp.a] = Known(FromInt(7)) /\ inp.sol[inp.b] = Known(FromInt(5))
    /\ last.ret = Known(Two)

----------------------------------------------------------------------------
(* Handles as container keys.  A handle object is [kind, idx, id]: id is the
   identity of the Python object, idx the field set by __init__.  A dict or
   set treats a stored key and a probe as the same key when they are the same
   object, or when their hashes are equal and stored == probe is truthy. *)

\* Depth of nested calls at which the interpreter raises RecursionError.
RecursionLimit == 3

\* Var(model, idx) / Constr(model, idx), as the object with identity id.
Handle(kind, idx, id) == [kind |-> kind, idx |-> idx, id |-> id]

\* Var.__hash__ and Constr.__hash__: return self.idx.
Var_hash(a) == a.idx

Constr_hash(a) == a.idx

Hash(a) == IF a.kind = "Var" THEN Var_hash(a) ELSE Constr_hash(a)

\* Constr defines no __eq__: the comparison is object identity.
Constr_eq(a, b) == [exc |-> "", val |-> a.id = b.id]

RECURSIVE Var_eq_key(_, _, _)
RECURSIVE key_find(_, _, _, _)
\* The position of the key k in the items d, scanning from pos (0: absent).
key_find(d, k, pos, depth) ==
    IF pos > Len(d) THEN [exc |-> "", at |-> 0]
    ELSE IF d[pos].key.id = k.id THEN [exc |-> "", at |-> pos]
    ELSE IF Hash(d[pos].key) # Hash(k) THEN key_find(d, k, pos + 1, depth)
    ELSE LET c == IF k.kind = "Var" THEN Var_eq_key(d[pos].key, k, depth)
                  ELSE Constr_eq(d[pos].key, k)
         IN  IF c.exc # "" THEN [exc |-> c.exc, at |-> 0]
             ELSE IF c.val THEN [exc |-> "", at |-> pos]
             ELSE key_find(d, k, pos + 1, depth)

\* Var.__eq__ between two Var objects, as a truth value: it builds
\* LinExpr([self, other], [1, -1], sense="="), whose second add_var tests
\* `other in {self: 1}`; the LinExpr returned is truthy.
Var_eq_key(a, b, depth) ==
    IF depth >= RecursionLimit THEN [exc |-> "RecursionError", val |-> FALSE]
    ELSE LET f == key_find(<<[key |-> a, val |-> Known(One)]>>, b, 1, depth + 1)
         IN  [exc |-> f.exc, val |-> f.exc = ""]

\* d[k] = val on the dict object h[d].
key_set(h, d, k, val) ==
    LET f == key_find(h[d].items, k, 1, 0) IN
    IF f.exc # "" THEN Raise(h, h, f.exc)
    ELSE IF f.at = 0
         THEN Ok([h EXCEPT ![d].items = Append(@, [key |-> k, val |-> val])], 0)
         ELSE Ok([h EXCEPT ![d].items[f.at].val = val], 0)

\* d[k]: the outcome is [exc, ret].
key_get(h, d, k) ==
    LET f == key_find(h[d].items, k, 1, 0) IN
    IF f.exc # "" THEN [exc |-> f.exc, ret |-> None]
    ELSE IF f.at = 0 THEN [exc |-> "KeyError", ret |-> None]
    ELSE [exc |-> "", ret |-> h[d].items[f.at].val]

(* Client: a = K(m, i); b = K(m, j); c = K(m, l); d = {}; d[a] = 1; d[b] = 2;
   then d[probe] for probe one of a, b, c. *)

Kinds == {"Var", "Constr"}

KeyInputs == [kind : Kinds, i : Vars, j : Vars, l : Vars, probe : 1..3]

EmptyDict == [items |-> <<>>]

InitKeys == \E i \in KeyInputs : Start(<<EmptyDict>>, i)

KeyA == Handle(inp.kind, inp.i, 1)

KeyB == Handle(inp.kind, inp.j, 2)

KeyC == Handle(inp.kind, inp.l, 3)

Probe == CASE inp.probe = 1 -> KeyA [] inp.probe = 2 -> KeyB [] OTHER -> KeyC

\* d[a] = 1
KeysInsertFirst ==
    pc = 0 /\ Step("setitem", NoneO, NoneO, key_set(heap, 1, KeyA, Known(One)))

\* d[b] = 2
KeysInsertSecond ==
    pc = 1 /\ Step("setitem", NoneO, NoneO, key_set(heap, 1, KeyB, Known(Two)))

\* d[probe]
KeysLookup ==
    pc = 2 /\ Query(Call("getitem"), key_get(heap, 1, Probe))

NextKeys == KeysInsertFirst \/ KeysInsertSecond \/ KeysLookup

SpecKeys == InitKeys /\ [][NextKeys]_vars

\* C11: handles of one kind are keys by idx only: after d[a] = 1; d[b] = 2
\* the dict has one entry per distinct idx, and d[probe] returns the value
\* last stored under the probe's idx (whichever object stored it), or
\* KeyError when no key with that idx was stored.
C11_KeysByIdx ==
    /\ (pc >= 1 /\ last.op = "setitem") => last.exc = ""
    /\ pc >= 2 => Len(heap[1].items) = Cardinality({inp.i, inp.j})
    /\ pc = 3 =>
          IF Probe.idx = inp.j THEN last.exc = "" /\ last.ret = Known(Two)
          ELSE IF Probe.idx = inp.i THEN last.exc = "" /\ last.ret = Known(One)
          ELSE last.exc = "KeyError"

----------------------------------------------------------------------------
(* Solution pool: Var.xi(i) *)

\* The values of mip.OptimizationStatus.
OptimizationStatus ==
    {"ERROR", "OPTIMAL", "INFEASIBLE", "UNBOUNDED", "FEASIBLE",
     "INT_INFEASIBLE", "NO_SOLUTION_FOUND", "LOADED", "CUTOFF", "OTHER"}

\* xi that forwards to the solver in every status.
xi_ungated(status, poolval) == [exc |-> "", delegated |-> TRUE, ret |-> poolval]

\* Var.xi(i) when the model's status is status and solver.var_get_xi(self, i)
\* would return poolval.  The outcome is [exc, delegated, ret].
xi(status, poolval) ==
    IF status \in {"OPTIMAL", "FEASIBLE"}
    THEN [exc |-> "", delegated |-> TRUE, ret |-> poolval]
    ELSE [exc |-> "", delegated |-> FALSE, ret |-> None]

\* Indices into the solution pool.
PoolIdx == 1..NVars

\* What the solver's pool accessor returns for each index.
PoolVals == [PoolIdx -> SolVals]

PoolInputs == [status : OptimizationStatus, vals : PoolVals]

InitPool == \E i \in PoolInputs : Start(<<>>, i)

\* model.optimize(): the status and the solution pool change.
Optimize ==
    \E i \in PoolInputs :
        /\ Free
        /\ inp' = i
        /\ last' = Call("optimize")
        /\ pc' = pc + 1
        /\ UNCHANGED <<heap, pre>>

\* v.xi(i)
Xi ==
    \E v \in Vars, i \in PoolIdx :
        /\ Free
        /\ LET r == xi(inp.status, inp.vals[i]) IN
           Query([i |-> i] @@ [Call("xi") EXCEPT !.self = VarO(v), !.delegated = r.delegated], r)

NextPool == Optimize \/ Xi

SpecPool == InitPool /\ [][NextPool]_vars

\* C12: xi(i) calls the solver's pool accessor, and returns what it returns,
\* exactly when the model's status is optimal or feasible; in every other
\* status it returns None and the solver is not called.
C12_PoolGated ==
    last.op = "xi" =>
        /\ last.exc = ""
        /\ last.delegated <=> inp.status \in {"OPTIMAL", "FEASIBLE"}
        /\ last.delegated => last.ret = inp.vals[last.i]
        /\ ~last.delegated => last.ret = None

\* xi on an infeasible model returned None although the solver holds a value
\* at that pool index.
C12_Witness ==
    /\ last.op = "xi" /\ inp.status = "INFEASIBLE"
    /\ inp.vals[last.i].known
    /\ ~last.delegated /\ last.ret = None

----------------------------------------------------------------------------
(* Properties of add_term and of the in-place merge, over the calls of Spec *)

\* The coefficient an expression has for the variable v (0: no entry).
Coef(e, v) == IF v \in Keys(e.expr) THEN Get(e.expr, v) ELSE Zero

\* new is old plus k times the constant c and the coefficients cf[v], up to
\* the deletion of the entries whose sum is within 1e-12 of zero.
IsSum(new, old, k, c, cf) ==
    /\ new.sense = old.sense
    /\ new.const = NAdd(old.const, NMul(k, c))
    /\ \A v \in Vars : Within(Coef(new, v), NAdd(Coef(old, v), NMul(k, cf[v])))

\* The constant and the coefficients of a term: a Var, a LinExpr of h or a real.
TermConst(h, t) ==
    CASE t.t = "lin" -> h[t.i].const [] t.t = "real" -> t.r [] OTHER -> Zero

TermCoefs(h, t) ==
    [v \in Vars |->
        CASE t.t = "var" -> IF v = t.i THEN One ELSE Zero
          [] t.t = "lin" -> Coef(h[t.i], v)
          [] OTHER -> Zero]

AddTermIs(factor) ==
    (last.op = "add_term" /\ Supported(last.other) /\ last.other # last.self) =>
        /\ last.exc = ""
        /\ \A i \in DOMAIN pre : i # last.self.i => heap[i] = pre[i]
        /\ IsSum(heap[last.self.i], pre[last.self.i], factor,
                 TermConst(pre, last.other), TermCoefs(pre, last.other))

\* C13: add_term(term, coeff) adds coeff times the term to the receiver: coeff
\* to the coefficient of a Var, coeff times each coefficient and the constant
\* of a LinExpr, coeff * r to the constant for a real r.
C13_AddTerm == AddTermIs(last.k)

\* The calls that merge an expression into the receiver in place, and the
\* factor each applies to the argument.
MergeOps == {"add_expr", "LinExpr_iadd", "LinExpr_isub"}

MergeFactor(c) ==
    CASE c.op = "add_expr" -> c.k
      [] c.op = "LinExpr_iadd" -> One
      [] c.op = "LinExpr_isub" -> MinusOne

\* C14: e.add_expr(e, k), e += e and e -= e raise nothing and leave e equal
\* to (1 + k) times its old value: e -= e leaves no entries and constant 0,
\* e += e doubles every coefficient and the constant.
C14_SelfMerge ==
    (last.op \in MergeOps /\ last.other = last.self) =>
        LET old == pre[last.self.i]
            new == heap[last.self.i]
            k == MergeFactor(last)
        IN  /\ last.exc = ""
            /\ IsSum(new, old, k, old.const, [v \in Vars |-> Coef(old, v)])
            /\ k = MinusOne => new.expr = <<>> /\ new.const = Zero
            /\ k = One =>
                  /\ new.const = NMul(Two, old.const)
                  /\ Keys(new.expr) = Keys(old.expr)
                  /\ \A v \in Keys(old.expr) : Get(new.expr, v) = NMul(Two, Get(old.expr, v))

====
